---- MODULE Spec2Model ----
(***************************************************************************)
(* Task Management API (FastAPI + SQLAlchemy): registration, login with    *)
(* JWT bearer tokens, the resolve -> active -> admin gate chain, per-owner  *)
(* task CRUD and the admin activate/deactivate operations.                  *)
(*                                                                          *)
(* Text values are sequences of one-character strings so that the regular   *)
(* expressions of validators.py are computed, not assumed.  A request is    *)
(* handled in one atomic step (one request-scoped session, one commit);     *)
(* the step leaves the request and its response in req/resp, and Respond    *)
(* hands the response back to the client before the next request.  issued   *)
(* is what the clients hold: the tokens login has returned, each with the   *)
(* username it was asked for.  ever_completed records the ids of the tasks  *)
(* whose status has been completed since they were created; deleted         *)
(* records, in the specification of deletion, the tasks their owner has     *)
(* deleted.  sessions holds the requests of the workers that run side by    *)
(* side, each with what its session has read, in the specifications of      *)
(* concurrent requests.                                                     *)
(* created_at/updated_at are server-side timestamps that no handler reads;  *)
(* they are not part of the rows modelled here.                             *)
(***************************************************************************)
EXTENDS Integers, Sequences, FiniteSets, TLC

VARIABLES users, tasks, now, issued, ever_completed, deleted, sessions, req, resp

vars == <<users, tasks, now, issued, ever_completed, deleted, sessions, req, resp>>

(***************************************************************************)
(* Bounds of the model                                                      *)
(***************************************************************************)
MaxTasks == 2
MaxGateTasks == 1
MaxTokens == 2
MaxTime == 45
TickMinutes == 15
MaxEditTasks == 1
MaxPageTasks == 3
MaxDeleteTasks == 2

(***************************************************************************)
(* Text helpers                                                             *)
(***************************************************************************)
\* Python's None for an Optional[str]; no text value contains this element
NoneStr == <<"None">>
\* Python's None for an Optional[int] / Optional[datetime]
None == -1

Upper == {"A","B","C","D","E","F","G","H","I","J","K","L","M",
          "N","O","P","Q","R","S","T","U","V","W","X","Y","Z"}
Lower == {"a","b","c","d","e","f","g","h","i","j","k","l","m",
          "n","o","p","q","r","s","t","u","v","w","x","y","z"}
Digit == {"0","1","2","3","4","5","6","7","8","9"}
Special == {"!","@","#","$","%","^","&","*","(",")",",",".","?","\"",":","{","}","|","<",">"}
Whitespace == {" ", "\t", "\n"}

\* the character classes of the regular expressions
EmailLocalChars == Upper \cup Lower \cup Digit \cup {".","_","%","+","-"}
EmailDomainChars == Upper \cup Lower \cup Digit \cup {".","-"}
Letters == Upper \cup Lower
UsernameChars == Upper \cup Lower \cup Digit \cup {"_"}

AllIn(s, lo, hi, C) == \A i \in lo..hi : s[i] \in C

\* '$' of a Python regex: the end of the text, or just before a final newline
AtEnd(s, k) == k = Len(s) \/ (k = Len(s) - 1 /\ s[Len(s)] = "\n")

(***************************************************************************)
(* app/utils/validators.py                                                  *)
(***************************************************************************)
validate_email(email) ==
    \E at \in 2..Len(email) :
      /\ email[at] = "@"
      /\ AllIn(email, 1, at - 1, EmailLocalChars)
      /\ \E dot \in (at + 2)..Len(email) :
           /\ email[dot] = "."
           /\ AllIn(email, at + 1, dot - 1, EmailDomainChars)
           /\ \E k \in (dot + 2)..Len(email) :
                /\ AllIn(email, dot + 1, k, Letters)
                /\ AtEnd(email, k)

validate_password(password) ==
    IF Len(password) < 8 THEN FALSE
    ELSE /\ \E i \in 1..Len(password) : password[i] \in Upper
         /\ \E i \in 1..Len(password) : password[i] \in Lower
         /\ \E i \in 1..Len(password) : password[i] \in Digit
         /\ \E i \in 1..Len(password) : password[i] \in Special

validate_username(username) ==
    IF ~(3 <= Len(username) /\ Len(username) <= 50) THEN FALSE
    ELSE \E k \in 1..Len(username) :
           /\ AllIn(username, 1, k, UsernameChars)
           /\ AtEnd(username, k)

\* re.sub(r'<[^>]*>', '', s): scanning from the left, a '<' that has a later
\* '>' is removed together with everything up to the nearest such '>'
RECURSIVE StripTags(_)
StripTags(s) ==
    IF s = <<>> THEN <<>>
    ELSE IF Head(s) = "<" /\ \E j \in 2..Len(s) : s[j] = ">"
         THEN LET j == CHOOSE j \in 2..Len(s) :
                          s[j] = ">" /\ \A i \in 2..(j - 1) : s[i] # ">"
              IN StripTags(SubSeq(s, j + 1, Len(s)))
         ELSE <<Head(s)>> \o StripTags(Tail(s))

\* re.sub(r'\s+', ' ', s)
RECURSIVE CollapseSpaces(_)
CollapseSpaces(s) ==
    IF s = <<>> THEN <<>>
    ELSE IF Head(s) \in Whitespace
         THEN IF Len(s) > 1 /\ s[2] \in Whitespace
              THEN CollapseSpaces(Tail(s))
              ELSE <<" ">> \o CollapseSpaces(Tail(s))
         ELSE <<Head(s)>> \o CollapseSpaces(Tail(s))

\* str.strip()
RECURSIVE Strip(_)
Strip(s) ==
    IF s = <<>> THEN <<>>
    ELSE IF Head(s) \in Whitespace THEN Strip(Tail(s))
    ELSE IF s[Len(s)] \in Whitespace THEN Strip(SubSeq(s, 1, Len(s) - 1))
    ELSE s

sanitize_string(input_string) ==
    IF input_string = NoneStr THEN NoneStr
    ELSE Strip(CollapseSpaces(StripTags(input_string)))

HTTPException(code, detail) == [code |-> code, detail |-> detail, body |-> <<>>]
OK(code, body) == [code |-> code, detail |-> "", body |-> body]

\* request validation of the framework (pydantic / Query constraints)
RequestValidationError == HTTPException(422, "Unprocessable Entity")

\* "ok", or the HTTPException raised by the first failing check
validate_registration_data(username, email, password) ==
    IF ~validate_username(username)
    THEN HTTPException(400, "Username must be 3-50 characters and contain only letters, numbers, and underscores")
    ELSE IF ~validate_email(email)
    THEN HTTPException(400, "Invalid email address")
    ELSE IF ~validate_password(password)
    THEN HTTPException(400, "Password must be at least 8 characters and contain uppercase, lowercase, number, and special character")
    ELSE OK(200, <<>>)

(***************************************************************************)
(* config/config.py and app/services/auth_service.py                        *)
(***************************************************************************)
ACCESS_TOKEN_EXPIRE_MINUTES == 30
SECRET_KEY == "your-secret-key-here"

\* the random salts of bcrypt
Salts == {"s1"}

get_password_hash(password, salt) ==
    [scheme |-> "bcrypt", salt |-> salt, digest |-> <<salt>> \o password]

\* verify_password that accepts every password
verify_any(plain_password, hashed_password) == TRUE

verify_password(plain_password, hashed_password) ==
    hashed_password.digest = <<hashed_password.salt>> \o plain_password

\* the bearer token is absent from the request
NoToken == [key |-> "none", sub |-> NoneStr, exp |-> None]

\* jwt.encode: the claims of data plus exp, signed with SECRET_KEY
create_access_token(data) ==
    [key |-> SECRET_KEY, sub |-> data.sub, exp |-> now + ACCESS_TOKEN_EXPIRE_MINUTES]

\* decode_token without the expiry check
decode_ignoring_exp(token) ==
    IF token.key = SECRET_KEY
    THEN <<[sub |-> token.sub, exp |-> token.exp]>>
    ELSE <<>>

\* jwt.decode: <<payload>>, or <<>> for None (bad signature, malformed, or
\* exp earlier than the current time)
decode_token(token) ==
    IF token.key = SECRET_KEY /\ ~(token.exp < now)
    THEN <<[sub |-> token.sub, exp |-> token.exp]>>
    ELSE <<>>

\* str(n) and int(s) for non-negative integers
DigitSeq == <<"0","1","2","3","4","5","6","7","8","9">>
RECURSIVE str(_)
str(n) == IF n < 10 THEN <<DigitSeq[n + 1]>>
          ELSE str(n \div 10) \o <<DigitSeq[(n % 10) + 1]>>
RECURSIVE int(_)
int(s) == IF Len(s) = 1 THEN (CHOOSE d \in 0..9 : DigitSeq[d + 1] = s[1])
          ELSE 10 * int(SubSeq(s, 1, Len(s) - 1))
               + (CHOOSE d \in 0..9 : DigitSeq[d + 1] = s[Len(s)])

(***************************************************************************)
(* The store: rows of app/models/user.py and app/models/task.py             *)
(***************************************************************************)
TODO == "todo"
IN_PROGRESS == "in_progress"
COMPLETED == "completed"
TaskStatus == {TODO, IN_PROGRESS, COMPLETED}
LOW == "low"
MEDIUM == "medium"
HIGH == "high"
TaskPriority == {LOW, MEDIUM, HIGH}
\* an enum-typed field that the request does not supply
NoneEnum == "None"

\* Query.first(): the matching row with the lowest rowid
First(rows) == CHOOSE r \in rows : \A q \in rows : r.id <= q.id

\* Query.all(): the matching rows in rowid order
RECURSIVE All(_)
All(rows) == IF rows = {} THEN <<>>
             ELSE <<First(rows)>> \o All(rows \ {First(rows)})

\* an id allocation that hands out the same id every time
SameId(rows) == 1

\* integer primary key of a new row (SQLite rowid: one more than the largest
\* id present, so the id of a deleted last row is given out again)
NextId(rows) == IF rows = {} THEN 1
                ELSE (CHOOSE m \in {r.id : r \in rows} : \A r \in rows : r.id <= m) + 1

\* User whose is_admin column defaults to true
UserAdminByDefault(id, username, email, hashed_password, full_name) ==
    [id |-> id, email |-> email, username |-> username,
     hashed_password |-> hashed_password, full_name |-> full_name,
     is_active |-> TRUE, is_admin |-> TRUE]

User(id, username, email, hashed_password, full_name) ==
    [id |-> id, email |-> email, username |-> username,
     hashed_password |-> hashed_password, full_name |-> full_name,
     is_active |-> TRUE, is_admin |-> FALSE]

\* Task whose status column defaults to in_progress
TaskStartedByDefault(id, title, description, priority, due_date, owner_id) ==
    [id |-> id, title |-> title, description |-> description, status |-> IN_PROGRESS,
     priority |-> priority, due_date |-> due_date, owner_id |-> owner_id,
     completed_at |-> None]

Task(id, title, description, priority, due_date, owner_id) ==
    [id |-> id, title |-> title, description |-> description, status |-> TODO,
     priority |-> priority, due_date |-> due_date, owner_id |-> owner_id,
     completed_at |-> None]

UserResponse(u) ==
    [id |-> u.id, username |-> u.username, email |-> u.email,
     full_name |-> u.full_name, is_active |-> u.is_active, is_admin |-> u.is_admin]

Token(access_token) == [access_token |-> access_token, token_type |-> "bearer"]

(***************************************************************************)
(* app/middleware/auth_middleware.py: the gate chain.  A gate yields        *)
(* [err |-> <<exception>>, user |-> <<>>] or [err |-> <<>>, user |-> <<u>>] *)
(***************************************************************************)
Raise(exc) == [err |-> <<exc>>, user |-> <<>>]
Return(u) == [err |-> <<>>, user |-> <<u>>]

credentials_exception == HTTPException(401, "Could not validate credentials")

\* OAuth2PasswordBearer: a request without a bearer token is rejected
oauth2_scheme(token) ==
    IF token = NoToken THEN <<HTTPException(401, "Not authenticated")>> ELSE <<>>

get_current_user(token) ==
    IF oauth2_scheme(token) # <<>> THEN Raise(oauth2_scheme(token)[1])
    ELSE LET payload == decode_token(token) IN
         IF payload = <<>> THEN Raise(credentials_exception)
         ELSE IF payload[1].sub = NoneStr THEN Raise(credentials_exception)
         ELSE LET found == {u \in users : u.id = int(payload[1].sub)} IN
              IF found = {} THEN Raise(credentials_exception)
              ELSE Return(First(found))

\* get_current_active_user without the is_active check
skip_active_check(token) == get_current_user(token)

get_current_active_user(token) ==
    LET current_user == get_current_user(token) IN
    IF current_user.err # <<>> THEN current_user
    ELSE IF ~current_user.user[1].is_active
         THEN Raise(HTTPException(400, "Inactive user"))
         ELSE current_user

get_current_admin_user(token) ==
    LET current_user == get_current_active_user(token) IN
    IF current_user.err # <<>> THEN current_user
    ELSE IF ~current_user.user[1].is_admin
         THEN Raise(HTTPException(403, "Not enough privileges"))
         ELSE current_user

(***************************************************************************)
(* One request, handled atomically                                          *)
(***************************************************************************)
Request(op, token, id, data) == [op |-> op, token |-> token, id |-> id, data |-> data]
Idle == Request("idle", NoToken, None, <<>>)
NoResponse == [code |-> 0, detail |-> "", body |-> <<>>]

\* the history of deletions, where it is kept: the id and the owner of every
\* task a delete_task removed
NoHistory == [kept |-> FALSE, rows |-> {}]
Deleted(request, response, tasks2) ==
    IF deleted.kept /\ request.op = "delete_task" /\ response.code = 204
    THEN [deleted EXCEPT !.rows = @ \cup {[id |-> t.id, owner_id |-> t.owner_id] :
                                            t \in tasks \ tasks2}]
    ELSE deleted

\* status has been COMPLETED at some point since the task was created
Track(tasks2) ==
    {t.id : t \in {x \in tasks2 : x.status = COMPLETED}}
    \cup {i \in ever_completed :
            (\E t \in tasks2 : t.id = i) /\ (\E t \in tasks : t.id = i)}

Handle(request, response, users2, tasks2) ==
    /\ req.op = "idle"
    /\ req' = request
    /\ resp' = response
    /\ users' = users2
    /\ tasks' = tasks2
    /\ ever_completed' = Track(tasks2)
    /\ deleted' = Deleted(request, response, tasks2)
    /\ sessions' = sessions
    /\ issued' = IF request.op = "login" /\ response.code = 200
                 THEN issued \cup {[token |-> response.body[1].access_token,
                                    for |-> request.data.username]}
                 ELSE issued
    /\ now' = now

(***************************************************************************)
(* app/routes/auth.py                                                       *)
(***************************************************************************)
\* pydantic's EmailStr, the type of the email field of UserCreate and
\* UserUpdate: the value must be one local part of atext characters and inner
\* dots, an '@', and a domain of at least two dot-separated labels; the
\* validated value has its domain in lower case.  A body that fails is
\* answered 422 before the handler runs.
AText == Upper \cup Lower \cup Digit \cup
         {"!","#","$","%","&","'","*","+","-","/","=","?","^","_","{","|","}","~"}
DomainText == Upper \cup Lower \cup Digit \cup {"-"}
UpperSeq == <<"A","B","C","D","E","F","G","H","I","J","K","L","M",
              "N","O","P","Q","R","S","T","U","V","W","X","Y","Z">>
LowerSeq == <<"a","b","c","d","e","f","g","h","i","j","k","l","m",
              "n","o","p","q","r","s","t","u","v","w","x","y","z">>
AtSign(v) == CHOOSE at \in 1..Len(v) : v[at] = "@"
DotAtom(v, lo, hi, C) ==
    /\ lo <= hi
    /\ \A i \in lo..hi : v[i] \in C \cup {"."}
    /\ v[lo] # "." /\ v[hi] # "."
    /\ \A i \in lo..(hi - 1) : ~(v[i] = "." /\ v[i + 1] = ".")
EmailStrValid(v) ==
    /\ Cardinality({i \in 1..Len(v) : v[i] = "@"}) = 1
    /\ DotAtom(v, 1, AtSign(v) - 1, AText)
    /\ DotAtom(v, AtSign(v) + 1, Len(v), DomainText)
    /\ \E i \in (AtSign(v) + 1)..Len(v) : v[i] = "."
    /\ v[AtSign(v) + 1] # "-" /\ v[Len(v)] # "-"
EmailStr(v) ==
    [i \in 1..Len(v) |->
       IF i > AtSign(v) /\ v[i] \in Upper
       THEN LowerSeq[CHOOSE k \in 1..26 : UpperSeq[k] = v[i]]
       ELSE v[i]]

\* lookups that find nothing
no_username(username) == {}
no_email(email) == {}

by_username(username) == {u \in users : u.username = username}
by_email(email) == {u \in users : u.email = email}

\* user_data: [username, email, password, full_name, is_admin]; UserCreate
\* has no is_admin field, a value sent for it is dropped
register_user(body, salt) ==
    LET request == Request("register_user", NoToken, None, body)
        user_data == [body EXCEPT !.email = EmailStr(body.email)]
        checked == validate_registration_data(user_data.username, user_data.email,
                                              user_data.password)
        new_user == User(NextId(users), user_data.username, user_data.email,
                         get_password_hash(user_data.password, salt),
                         user_data.full_name)
    IN IF ~EmailStrValid(body.email)
       THEN Handle(request, RequestValidationError, users, tasks)
       ELSE IF checked.code # 200
       THEN Handle(request, checked, users, tasks)
       ELSE IF by_username(user_data.username) # {}
       THEN Handle(request, HTTPException(400, "Username already registered"), users, tasks)
       ELSE IF by_email(user_data.email) # {}
       THEN Handle(request, HTTPException(400, "Email already registered"), users, tasks)
       ELSE Handle(request, OK(200, <<UserResponse(new_user)>>),
                   users \cup {new_user}, tasks)

\* form_data: [username, password]
login(form_data) ==
    LET request == Request("login", NoToken, None, form_data)
        found == by_username(form_data.username)
    IN IF found = {} \/ ~verify_password(form_data.password, First(found).hashed_password)
       THEN Handle(request, HTTPException(401, "Incorrect username or password"),
                   users, tasks)
       ELSE Handle(request,
                   OK(200, <<Token(create_access_token([sub |-> str(First(found).id)]))>>),
                   users, tasks)

(***************************************************************************)
(* app/routes/tasks.py                                                      *)
(***************************************************************************)
\* owned_task without the owner filter
any_task(task_id, current_user) == {t \in tasks : t.id = task_id}

\* the task with this id among the tasks of current_user
owned_task(task_id, current_user) ==
    {t \in tasks : t.id = task_id /\ t.owner_id = current_user.id}

\* set_status that never stamps completed_at
set_status_only(task, status) == [task EXCEPT !.status = status]

\* the status branch of update_task
set_status(task, status) ==
    IF status = COMPLETED
    THEN [task EXCEPT !.status = status, !.completed_at = now]
    ELSE [task EXCEPT !.status = status]

\* task_data: [title, description, priority, due_date, status]; TaskCreate
\* has no status field, a value sent for it is dropped
create_task(token, task_data) ==
    LET request == Request("create_task", token, None, task_data)
        gate == get_current_active_user(token)
        current_user == gate.user[1]
        new_task == Task(NextId(tasks),
                         sanitize_string(task_data.title),
                         sanitize_string(task_data.description),
                         IF task_data.priority = NoneEnum THEN MEDIUM
                                                          ELSE task_data.priority,
                         task_data.due_date,
                         current_user.id)
    IN IF gate.err # <<>> THEN Handle(request, gate.err[1], users, tasks)
       ELSE IF task_data.title = NoneStr
       THEN Handle(request, RequestValidationError, users, tasks)
       ELSE Handle(request, OK(200, <<new_task>>), users, tasks \cup {new_task})

\* get_tasks that does not apply the offset
get_tasks_first_page(token, query) ==
    LET request == Request("get_tasks", token, None, query)
        gate == get_current_active_user(token)
        current_user == gate.user[1]
        by_owner == {t \in tasks : t.owner_id = current_user.id}
        by_status == IF query.status # NoneEnum
                     THEN {t \in by_owner : t.status = query.status} ELSE by_owner
        by_priority == IF query.priority # NoneEnum
                       THEN {t \in by_status : t.priority = query.priority}
                       ELSE by_status
        rows == All(by_priority)
        last == IF query.limit < Len(rows) THEN query.limit ELSE Len(rows)
    IN IF gate.err # <<>> THEN Handle(request, gate.err[1], users, tasks)
       ELSE IF query.skip < 0 \/ query.limit < 1 \/ query.limit > 100
       THEN Handle(request, RequestValidationError, users, tasks)
       ELSE Handle(request, OK(200, SubSeq(rows, 1, last)), users, tasks)

\* get_tasks that does not apply the status filter
get_tasks_any_status(token, query) ==
    LET request == Request("get_tasks", token, None, query)
        gate == get_current_active_user(token)
        current_user == gate.user[1]
        by_owner == {t \in tasks : t.owner_id = current_user.id}
        by_priority == IF query.priority # NoneEnum
                       THEN {t \in by_owner : t.priority = query.priority}
                       ELSE by_owner
        rows == All(by_priority)
        last == IF query.skip + query.limit < Len(rows)
                THEN query.skip + query.limit ELSE Len(rows)
    IN IF gate.err # <<>> THEN Handle(request, gate.err[1], users, tasks)
       ELSE IF query.skip < 0 \/ query.limit < 1 \/ query.limit > 100
       THEN Handle(request, RequestValidationError, users, tasks)
       ELSE Handle(request, OK(200, SubSeq(rows, query.skip + 1, last)), users, tasks)

\* query: [status, priority, skip, limit]
get_tasks(token, query) ==
    LET request == Request("get_tasks", token, None, query)
        gate == get_current_active_user(token)
        current_user == gate.user[1]
        by_owner == {t \in tasks : t.owner_id = current_user.id}
        by_status == IF query.status # NoneEnum
                     THEN {t \in by_owner : t.status = query.status} ELSE by_owner
        by_priority == IF query.priority # NoneEnum
                       THEN {t \in by_status : t.priority = query.priority}
                       ELSE by_status
        rows == All(by_priority)
        last == IF query.skip + query.limit < Len(rows)
                THEN query.skip + query.limit ELSE Len(rows)
    IN IF gate.err # <<>> THEN Handle(request, gate.err[1], users, tasks)
       ELSE IF query.skip < 0 \/ query.limit < 1 \/ query.limit > 100
       THEN Handle(request, RequestValidationError, users, tasks)
       ELSE Handle(request, OK(200, SubSeq(rows, query.skip + 1, last)), users, tasks)

get_task(token, task_id) ==
    LET request == Request("get_task", token, task_id, <<>>)
        gate == get_current_active_user(token)
        current_user == gate.user[1]
        found == owned_task(task_id, current_user)
    IN IF gate.err # <<>> THEN Handle(request, gate.err[1], users, tasks)
       ELSE IF found = {}
       THEN Handle(request, HTTPException(404, "Task not found"), users, tasks)
       ELSE Handle(request, OK(200, <<First(found)>>), users, tasks)

\* update_task that stores the body as it is, fields left out included
update_replacing(token, task_id, task_data) ==
    LET request == Request("update_task", token, task_id, task_data)
        gate == get_current_active_user(token)
        current_user == gate.user[1]
        found == owned_task(task_id, current_user)
        task == First(found)
        stored == [set_status(task, IF task_data.status = NoneEnum THEN TODO
                                    ELSE task_data.status)
                     EXCEPT !.title = sanitize_string(task_data.title),
                            !.description = sanitize_string(task_data.description),
                            !.priority = IF task_data.priority = NoneEnum THEN MEDIUM
                                         ELSE task_data.priority,
                            !.due_date = task_data.due_date]
    IN IF gate.err # <<>> THEN Handle(request, gate.err[1], users, tasks)
       ELSE IF found = {}
       THEN Handle(request, HTTPException(404, "Task not found"), users, tasks)
       ELSE Handle(request, OK(200, <<stored>>), users, (tasks \ {task}) \cup {stored})

\* task_data: [title, description, status, priority, due_date]
update_task(token, task_id, task_data) ==
    LET request == Request("update_task", token, task_id, task_data)
        gate == get_current_active_user(token)
        current_user == gate.user[1]
        found == owned_task(task_id, current_user)
        task == First(found)
        task1 == IF task_data.title # NoneStr
                 THEN [task EXCEPT !.title = sanitize_string(task_data.title)]
                 ELSE task
        task2 == IF task_data.description # NoneStr
                 THEN [task1 EXCEPT !.description = sanitize_string(task_data.description)]
                 ELSE task1
        task3 == IF task_data.status # NoneEnum
                 THEN set_status(task2, task_data.status)
                 ELSE task2
        task4 == IF task_data.priority # NoneEnum
                 THEN [task3 EXCEPT !.priority = task_data.priority]
                 ELSE task3
        task5 == IF task_data.due_date # None
                 THEN [task4 EXCEPT !.due_date = task_data.due_date]
                 ELSE task4
    IN IF gate.err # <<>> THEN Handle(request, gate.err[1], users, tasks)
       ELSE IF found = {}
       THEN Handle(request, HTTPException(404, "Task not found"), users, tasks)
       ELSE Handle(request, OK(200, <<task5>>), users, (tasks \ {task}) \cup {task5})

delete_task(token, task_id) ==
    LET request == Request("delete_task", token, task_id, <<>>)
        gate == get_current_active_user(token)
        current_user == gate.user[1]
        found == owned_task(task_id, current_user)
    IN IF gate.err # <<>> THEN Handle(request, gate.err[1], users, tasks)
       ELSE IF found = {}
       THEN Handle(request, HTTPException(404, "Task not found"), users, tasks)
       ELSE Handle(request, OK(204, <<>>), users, tasks \ {First(found)})

(***************************************************************************)
(* app/routes/users.py                                                      *)
(***************************************************************************)
get_current_user_profile(token) ==
    LET request == Request("get_current_user_profile", token, None, <<>>)
        gate == get_current_active_user(token)
    IN IF gate.err # <<>> THEN Handle(request, gate.err[1], users, tasks)
       ELSE Handle(request, OK(200, <<UserResponse(gate.user[1])>>), users, tasks)

\* user_data: [full_name, email]
update_current_user_profile(token, body) ==
    LET request == Request("update_current_user_profile", token, None, body)
        gate == get_current_active_user(token)
        current_user == gate.user[1]
        user_data == IF body.email = NoneStr THEN body
                     ELSE [body EXCEPT !.email = EmailStr(body.email)]
        new_email == user_data.email # NoneStr /\ user_data.email # <<>>
                     /\ user_data.email # current_user.email
        user1 == IF new_email THEN [current_user EXCEPT !.email = user_data.email]
                 ELSE current_user
        user2 == IF user_data.full_name # NoneStr /\ user_data.full_name # <<>>
                 THEN [user1 EXCEPT !.full_name = user_data.full_name]
                 ELSE user1
    IN IF gate.err # <<>> THEN Handle(request, gate.err[1], users, tasks)
       ELSE IF body.email # NoneStr /\ ~EmailStrValid(body.email)
       THEN Handle(request, RequestValidationError, users, tasks)
       ELSE IF new_email /\ by_email(user_data.email) # {}
       THEN Handle(request, HTTPException(400, "Email already registered"), users, tasks)
       ELSE Handle(request, OK(200, <<UserResponse(user2)>>),
                   (users \ {current_user}) \cup {user2}, tasks)

get_all_users(token) ==
    LET request == Request("get_all_users", token, None, <<>>)
        gate == get_current_admin_user(token)
    IN IF gate.err # <<>> THEN Handle(request, gate.err[1], users, tasks)
       ELSE Handle(request, OK(200, [i \in 1..Len(All(users)) |->
                                       UserResponse(All(users)[i])]), users, tasks)

\* deactivate_user without the check for one's own id
deactivate_any(token, user_id) ==
    LET request == Request("deactivate_user", token, user_id, <<>>)
        gate == get_current_admin_user(token)
        found == {u \in users : u.id = user_id}
        user == [First(found) EXCEPT !.is_active = FALSE]
    IN IF gate.err # <<>> THEN Handle(request, gate.err[1], users, tasks)
       ELSE IF found = {}
       THEN Handle(request, HTTPException(404, "User not found"), users, tasks)
       ELSE Handle(request, OK(200, <<UserResponse(user)>>),
                   (users \ found) \cup {user}, tasks)

deactivate_user(token, user_id) ==
    LET request == Request("deactivate_user", token, user_id, <<>>)
        gate == get_current_admin_user(token)
        current_user == gate.user[1]
        found == {u \in users : u.id = user_id}
        user == [First(found) EXCEPT !.is_active = FALSE]
    IN IF gate.err # <<>> THEN Handle(request, gate.err[1], users, tasks)
       ELSE IF user_id = current_user.id
       THEN Handle(request, HTTPException(400, "Cannot deactivate yourself"), users, tasks)
       ELSE IF found = {}
       THEN Handle(request, HTTPException(404, "User not found"), users, tasks)
       ELSE Handle(request, OK(200, <<UserResponse(user)>>),
                   (users \ found) \cup {user}, tasks)

activate_user(token, user_id) ==
    LET request == Request("activate_user", token, user_id, <<>>)
        gate == get_current_admin_user(token)
        found == {u \in users : u.id = user_id}
        user == [First(found) EXCEPT !.is_active = TRUE]
    IN IF gate.err # <<>> THEN Handle(request, gate.err[1], users, tasks)
       ELSE IF found = {}
       THEN Handle(request, HTTPException(404, "User not found"), users, tasks)
       ELSE Handle(request, OK(200, <<UserResponse(user)>>),
                   (users \ found) \cup {user}, tasks)

(***************************************************************************)
(* The clients: the requests that are sent                                  *)
(***************************************************************************)
Ann == <<"a","n","n">>
Bob == <<"b","o","b">>
Root == <<"r","o","o","t">>
ShortName == <<"a","b">>
AnnMail == <<"a","@","x",".","i","o">>
BobMail == <<"b","@","x",".","i","o">>
RootMail == <<"r","@","x",".","i","o">>
BobMailUpper == <<"b","@","X",".","I","O">>
BadMail == <<"a","@","x">>
OddMail == <<"a","!","@","x",".","i","o">>
GoodPw == <<"A","b","c","1","2","3","4","!">>
OtherPw == <<"X","y","z","9","8","7","6","?">>
WeakPw == <<"a","b","c">>
FullName == <<"A"," ","N">>

Usernames == {Ann, Bob, ShortName}
Emails == {AnnMail, BobMail, BobMailUpper, BadMail, OddMail}

\* an administrator is created by the operator of the store, not by the API
RootUser == [User(1, Root, RootMail, get_password_hash(GoodPw, "s1"), NoneStr)
               EXCEPT !.is_admin = TRUE]

\* what a client can present: a token login returned, no token, a token
\* signed with another key, a signed token without a subject, and a token
\* that outlived the store it was issued from (its user does not exist)
ForgedToken == [key |-> "other", sub |-> str(1), exp |-> ACCESS_TOKEN_EXPIRE_MINUTES]
NoSubjectToken == [key |-> SECRET_KEY, sub |-> NoneStr, exp |-> ACCESS_TOKEN_EXPIRE_MINUTES]
StaleToken == [key |-> SECRET_KEY, sub |-> str(12), exp |-> ACCESS_TOKEN_EXPIRE_MINUTES]
PresentedTokens ==
    {g.token : g \in issued} \cup {NoToken, ForgedToken, NoSubjectToken, StaleToken}

TaggedTitle == <<" ","<","i",">","b">>
SpacedText == <<"d"," ","\t","e">>
DueDate == 60

TaskCreateBody(title, description, priority, due_date, status) ==
    [title |-> title, description |-> description, priority |-> priority,
     due_date |-> due_date, status |-> status]
TaskCreateBodies ==
    {TaskCreateBody(<<"a">>, NoneStr, NoneEnum, None, s) : s \in TaskStatus \cup {NoneEnum}}
    \cup {TaskCreateBody(TaggedTitle, SpacedText, HIGH, DueDate, NoneEnum),
          TaskCreateBody(NoneStr, NoneStr, NoneEnum, None, NoneEnum)}

TaskUpdateBody(title, description, status, priority, due_date) ==
    [title |-> title, description |-> description, status |-> status,
     priority |-> priority, due_date |-> due_date]
TaskUpdateBodies ==
    {TaskUpdateBody(NoneStr, NoneStr, s, NoneEnum, None) : s \in TaskStatus \cup {NoneEnum}}

TaskQueries ==
    {[status |-> s, priority |-> p, skip |-> k, limit |-> 10] :
       s \in {NoneEnum, IN_PROGRESS}, p \in {NoneEnum, HIGH}, k \in {0, 1}}

\* the server takes one request at a time
Accepting == req.op = "idle"

Register ==
    /\ Accepting
    /\ \E username \in Usernames, email \in Emails, password \in {GoodPw, WeakPw},
          full_name \in {NoneStr, FullName}, is_admin \in {"absent", "true"},
          salt \in Salts :
            register_user([username |-> username, email |-> email, password |-> password,
                        full_name |-> full_name, is_admin |-> is_admin], salt)

Login ==
    /\ Accepting
    /\ Cardinality(issued) < MaxTokens
    /\ \E username \in {Ann, Bob, Root}, password \in {GoodPw, OtherPw} :
         login([username |-> username, password |-> password])

CreateTask ==
    /\ Accepting
    /\ NextId(tasks) <= MaxTasks
    /\ \E token \in PresentedTokens, task_data \in TaskCreateBodies :
         create_task(token, task_data)

GetTasks ==
    /\ Accepting
    /\ \E token \in PresentedTokens, query \in TaskQueries : get_tasks(token, query)

GetTask ==
    /\ Accepting
    /\ \E token \in PresentedTokens, task_id \in 1..(MaxTasks + 1) :
         get_task(token, task_id)

UpdateTask ==
    /\ Accepting
    /\ \E token \in PresentedTokens, task_id \in 1..(MaxTasks + 1),
          task_data \in TaskUpdateBodies :
         update_task(token, task_id, task_data)

DeleteTask ==
    /\ Accepting
    /\ \E token \in PresentedTokens, task_id \in 1..(MaxTasks + 1) :
         delete_task(token, task_id)

GetProfile ==
    /\ Accepting
    /\ \E token \in PresentedTokens : get_current_user_profile(token)

UpdateProfile ==
    /\ Accepting
    /\ \E token \in PresentedTokens, full_name \in {NoneStr, FullName},
          email \in {NoneStr, AnnMail, BobMail, BobMailUpper, BadMail} :
         update_current_user_profile(token, [full_name |-> full_name, email |-> email])

GetAllUsers ==
    /\ Accepting
    /\ \E token \in PresentedTokens : get_all_users(token)

DeactivateUser ==
    /\ Accepting
    /\ \E token \in PresentedTokens, user_id \in 1..4 : deactivate_user(token, user_id)

ActivateUser ==
    /\ Accepting
    /\ \E token \in PresentedTokens, user_id \in 1..4 : activate_user(token, user_id)

\* time passes between two requests
Tick ==
    /\ Accepting
    /\ now + TickMinutes <= MaxTime
    /\ now' = now + TickMinutes
    /\ UNCHANGED <<users, tasks, issued, ever_completed, deleted, sessions, req, resp>>

\* the response is handed to the client
Respond ==
    /\ req.op # "idle"
    /\ req' = Idle
    /\ resp' = NoResponse
    /\ UNCHANGED <<users, tasks, now, issued, ever_completed, deleted, sessions>>

(***************************************************************************)
(* Accounts: registration, login, profiles and the admin operations, from   *)
(* an empty store or from one that holds the operator's administrator       *)
(***************************************************************************)
InitUsers ==
    /\ users \in {{}, {RootUser}}
    /\ tasks = {}
    /\ now = 0
    /\ issued = {}
    /\ ever_completed = {}
    /\ deleted = NoHistory
    /\ sessions = <<>>
    /\ req = Idle
    /\ resp = NoResponse

NextUsers ==
    \/ Register
    \/ Login
    \/ GetProfile
    \/ UpdateProfile
    \/ GetAllUsers
    \/ DeactivateUser
    \/ ActivateUser
    \/ Respond

SpecUsers == InitUsers /\ [][NextUsers]_vars

(***************************************************************************)
(* Tasks: the task operations of two registered users                       *)
(***************************************************************************)
AnnUser == User(1, Ann, AnnMail, get_password_hash(GoodPw, "s1"), NoneStr)
BobUser == User(2, Bob, BobMail, get_password_hash(GoodPw, "s1"), NoneStr)

\* both have logged in
IssuedAtStart ==
    {[token |-> [key |-> SECRET_KEY, sub |-> str(u.id),
                 exp |-> ACCESS_TOKEN_EXPIRE_MINUTES], for |-> u.username] :
       u \in {AnnUser, BobUser}}

InitTasks ==
    /\ users = {AnnUser, BobUser}
    /\ tasks = {}
    /\ now = 0
    /\ issued = IssuedAtStart
    /\ ever_completed = {}
    /\ deleted = NoHistory
    /\ sessions = <<>>
    /\ req = Idle
    /\ resp = NoResponse

NextTasks ==
    \/ CreateTask
    \/ GetTasks
    \/ GetTask
    \/ UpdateTask
    \/ DeleteTask
    \/ Respond

SpecTasks == InitTasks /\ [][NextTasks]_vars

(***************************************************************************)
(* The whole API behind the gate chain, with the clock: an administrator    *)
(* and a registered user, every protected operation, login, and time        *)
(***************************************************************************)
InitialTask == Task(1, <<"a">>, NoneStr, MEDIUM, None, 2)

GateCreateTask ==
    /\ Accepting
    /\ NextId(tasks) <= MaxGateTasks
    /\ \E token \in PresentedTokens :
         create_task(token, TaskCreateBody(<<"a">>, NoneStr, NoneEnum, None, NoneEnum))

GateGetTasks ==
    /\ Accepting
    /\ \E token \in PresentedTokens :
         get_tasks(token, [status |-> NoneEnum, priority |-> NoneEnum,
                           skip |-> 0, limit |-> 10])

GateGetTask ==
    /\ Accepting
    /\ \E token \in PresentedTokens, task_id \in 1..MaxGateTasks : get_task(token, task_id)

GateUpdateTask ==
    /\ Accepting
    /\ \E token \in PresentedTokens, task_id \in 1..MaxGateTasks :
         update_task(token, task_id,
                     TaskUpdateBody(NoneStr, NoneStr, COMPLETED, NoneEnum, None))

GateDeleteTask ==
    /\ Accepting
    /\ \E token \in PresentedTokens, task_id \in 1..MaxGateTasks :
         delete_task(token, task_id)

GateUpdateProfile ==
    /\ Accepting
    /\ \E token \in PresentedTokens :
         update_current_user_profile(token, [full_name |-> FullName, email |-> NoneStr])

GateDeactivateUser ==
    /\ Accepting
    /\ \E token \in PresentedTokens, user_id \in 1..3 : deactivate_user(token, user_id)

GateActivateUser ==
    /\ Accepting
    /\ \E token \in PresentedTokens, user_id \in 1..3 : activate_user(token, user_id)

Init ==
    /\ users = {RootUser, [AnnUser EXCEPT !.id = 2]}
    /\ tasks = {InitialTask}
    /\ now = 0
    /\ issued = {}
    /\ ever_completed = {}
    /\ deleted = NoHistory
    /\ sessions = <<>>
    /\ req = Idle
    /\ resp = NoResponse

Next ==
    \/ Login
    \/ GateCreateTask
    \/ GateGetTasks
    \/ GateGetTask
    \/ GateUpdateTask
    \/ GateDeleteTask
    \/ GetProfile
    \/ GateUpdateProfile
    \/ GetAllUsers
    \/ GateDeactivateUser
    \/ GateActivateUser
    \/ Tick
    \/ Respond

Spec == Init /\ [][Next]_vars

(***************************************************************************)
(* Properties                                                               *)
(***************************************************************************)
ActiveOps == {"create_task", "get_tasks", "get_task", "update_task", "delete_task",
              "get_current_user_profile", "update_current_user_profile"}
AdminOps == {"get_all_users", "deactivate_user", "activate_user"}
TaskOps == {"create_task", "get_tasks", "get_task", "update_task", "delete_task"}

\* the token is present, signed by this service, not expired, and its subject
\* is the id of a user of the store
Authentic(token) ==
    /\ token # NoToken
    /\ token.key = SECRET_KEY
    /\ token.exp >= now
    /\ token.sub # NoneStr
    /\ \E u \in users : str(u.id) = token.sub
Bearer(token) == CHOOSE u \in users : str(u.id) = token.sub

\* the password a stored hash was made from
PlainOf(u) == Tail(u.hashed_password.digest)

NotFound == [code |-> 404, detail |-> "Task not found", body |-> <<>>]

\* C1: a task T of user A is invisible to every other user B: B's get, update
\* and delete on T's id answer 404 "Task not found", exactly the answer for an
\* id that does not exist, T stays in the store unchanged whatever B requests,
\* and no response to B (a list in particular) contains T.
C1_CrossOwnerIsolation ==
    [][\A T \in tasks :
         (/\ req'.op \in TaskOps
          /\ Authentic(req'.token)
          /\ Bearer(req'.token).is_active
          /\ Bearer(req'.token).id # T.owner_id)
         => /\ T \in tasks'
            /\ \A i \in 1..Len(resp'.body) : resp'.body[i] # T
            /\ (req'.op \in {"get_task", "update_task", "delete_task"} /\ req'.id = T.id)
                 => resp' = NotFound]_vars

C1_Witness ==
    /\ req.op = "delete_task"
    /\ Authentic(req.token)
    /\ \E T \in tasks : T.id = req.id /\ T.owner_id # Bearer(req.token).id
    /\ \E T \in tasks : T.owner_id = Bearer(req.token).id
    /\ resp = NotFound

\* C2: no two users of the store have the same username, and no two have the
\* same email.
C2_UniqueUsernameAndEmail ==
    \A u, v \in users : u # v => (u.username # v.username /\ u.email # v.email)

C2_Witness ==
    /\ req.op = "update_current_user_profile"
    /\ resp.code = 200
    /\ Cardinality(users) >= 3
    /\ req.data.email # NoneStr
    /\ resp.body[1].email = req.data.email

\* C3: a protected request is answered 401 when its token is absent, invalid,
\* without subject or names no user; otherwise 400 "Inactive user" when the
\* user is inactive; otherwise, for an admin operation, 403 when the user is
\* no admin; a request rejected by a gate changes no user and no task, and a
\* request that passes the gates gets none of these three answers.
C3_GateChain ==
    [][req'.op \in ActiveOps \cup AdminOps =>
         IF ~Authentic(req'.token)
         THEN resp'.code = 401 /\ users' = users /\ tasks' = tasks
         ELSE IF ~Bearer(req'.token).is_active
         THEN /\ resp' = [code |-> 400, detail |-> "Inactive user", body |-> <<>>]
              /\ users' = users /\ tasks' = tasks
         ELSE IF req'.op \in AdminOps /\ ~Bearer(req'.token).is_admin
         THEN /\ resp' = [code |-> 403, detail |-> "Not enough privileges", body |-> <<>>]
              /\ users' = users /\ tasks' = tasks
         ELSE /\ resp'.code \notin {401, 403}
              /\ resp'.detail # "Inactive user"]_vars

C3_Witness ==
    /\ req.op = "deactivate_user"
    /\ Authentic(req.token)
    /\ Bearer(req.token).is_active
    /\ ~Bearer(req.token).is_admin
    /\ resp.code = 403
    /\ tasks # {}

\* C4: a token that login issued for user U decodes to the subject str(U.id)
\* and resolves to U at every time before its expiry; after its expiry it no
\* longer decodes, and every protected request presenting it is answered 401.
C4_TokenLifetime ==
    /\ \A g \in issued :
         LET U == CHOOSE u \in users : u.username = g.for IN
         /\ now < g.token.exp =>
              /\ decode_token(g.token) # <<>>
              /\ decode_token(g.token)[1].sub = str(U.id)
              /\ get_current_user(g.token) = [err |-> <<>>, user |-> <<U>>]
         /\ now > g.token.exp => decode_token(g.token) = <<>>
    /\ (/\ req.op \in ActiveOps \cup AdminOps
        /\ req.token \in {g.token : g \in issued}
        /\ now > req.token.exp)
       => resp = [code |-> 401, detail |-> "Could not validate credentials", body |-> <<>>]

C4_Witness ==
    /\ req.op = "get_tasks"
    /\ req.token \in {g.token : g \in issued}
    /\ now > req.token.exp
    /\ resp.code = 401
    /\ \E g \in issued : now < g.token.exp

ConflictDetails == {"Username already registered", "Email already registered"}
Taken(user_data) ==
    \E u \in users : u.username = user_data.username \/ u.email = user_data.email

\* C5 as stated: a register request whose username or email is taken fails
\* with Conflict whatever its other fields are, and changes no user.
C5_ConflictWhateverTheOtherFields ==
    [][(req'.op = "register_user" /\ Taken(req'.data))
         => /\ resp'.code = 400
            /\ resp'.detail \in ConflictDetails
            /\ users' = users]_vars

\* C5 as amended: a register request whose username or email is taken is
\* rejected and changes no user and no task; the rejection is Conflict (400)
\* when the fields of the request pass validation, and is otherwise the
\* validation error: 422 for an email that is no address, else the 400 of the
\* first failing check (username, then email, then password).
C5_ConflictAfterValidation ==
    [][(req'.op = "register_user" /\ Taken(req'.data))
         => LET checked == validate_registration_data(req'.data.username,
                               EmailStr(req'.data.email), req'.data.password)
            IN /\ users' = users
               /\ tasks' = tasks
               /\ IF ~EmailStrValid(req'.data.email) THEN resp' = RequestValidationError
                  ELSE IF checked.code # 200 THEN resp' = checked
                  ELSE resp'.code = 400 /\ resp'.detail \in ConflictDetails]_vars

C5_Witness ==
    /\ req.op = "register_user"
    /\ resp.code = 400
    /\ resp.detail = "Email already registered"
    /\ req.data.is_admin = "true"
    /\ \A u \in users : u.username # req.data.username

\* C6: login answers 200 with a bearer token exactly when a user with the
\* given username exists and the given password is the one its hash was made
\* from; every failure is the same 401 "Incorrect username or password",
\* for an unknown username as for a wrong password; login changes no user and
\* no task.
C6_Login ==
    [][req'.op = "login" =>
         LET known == \E u \in users : /\ u.username = req'.data.username
                                       /\ PlainOf(u) = req'.data.password
         IN /\ known => /\ resp'.code = 200
                        /\ resp'.body[1].token_type = "bearer"
            /\ ~known => resp' = [code |-> 401,
                                  detail |-> "Incorrect username or password",
                                  body |-> <<>>]
            /\ users' = users
            /\ tasks' = tasks]_vars

C6_Witness ==
    /\ req.op = "login"
    /\ resp.code = 401
    /\ \E u \in users : u.username = req.data.username /\ PlainOf(u) # req.data.password
    /\ \E u \in users : u.username # req.data.username /\ u.username # Root

\* C7: the user a successful register returns is stored with is_active true
\* and is_admin false, also when the request carries is_admin.
C7_RegisteredActiveNotAdmin ==
    (req.op = "register_user" /\ resp.code = 200)
    => /\ resp.body[1].is_active /\ ~resp.body[1].is_admin
       /\ \E u \in users : /\ u.id = resp.body[1].id
                           /\ u.username = req.data.username
                           /\ u.is_active /\ ~u.is_admin

C7_Witness ==
    /\ req.op = "register_user"
    /\ resp.code = 200
    /\ req.data.is_admin = "true"
    /\ \E u \in users : u.is_admin

C9_CreateKeepsSuppliedStatus ==
    (req.op = "create_task" /\ resp.code = 200 /\ req.data.status # NoneEnum)
    => /\ resp.body[1].status = req.data.status
       /\ \E t \in tasks : t.id = resp.body[1].id /\ t.status = req.data.status

\* C10: completed_at of a task is non-null exactly when the status of the
\* task has been completed at some point since its creation; in particular a
\* completed task has completed_at set.
C10_CompletedAtIffEverCompleted ==
    \A t \in tasks :
      /\ (t.completed_at # None) <=> (t.id \in ever_completed)
      /\ t.status = COMPLETED => t.completed_at # None

C10_Witness ==
    /\ \E t \in tasks : t.status = TODO /\ t.completed_at # None
    /\ \E t \in tasks : t.status = IN_PROGRESS /\ t.completed_at = None
    /\ req.op = "update_task"
    /\ resp.code = 200

\* the stored task with this id after the step, for a task stored before it
After(t) == CHOOSE x \in tasks' : x.id = t.id

\* C11: completed_at changes only on a transition to completed: a step
\* changes the completed_at of a stored task only if it is an update of that
\* task whose status was not completed before and is completed after; an
\* update that supplies completed for a completed task leaves it unchanged.
C11_CompletedAtOnlyOnTransition ==
    [][\A t \in tasks :
         ((\E x \in tasks' : x.id = t.id) /\ After(t).completed_at # t.completed_at)
         => /\ req'.op = "update_task"
            /\ req'.id = t.id
            /\ t.status # COMPLETED
            /\ After(t).status = COMPLETED]_vars

(***************************************************************************)
(* Editing: two users create tasks and update them field by field           *)
(***************************************************************************)
NewTitle == <<"c">>

\* bodies that supply nothing, one field, or every field
TaskEditBodies ==
    {TaskUpdateBody(NoneStr, NoneStr, NoneEnum, NoneEnum, None),
     TaskUpdateBody(NewTitle, NoneStr, NoneEnum, NoneEnum, None),
     TaskUpdateBody(NoneStr, SpacedText, NoneEnum, NoneEnum, None),
     TaskUpdateBody(NoneStr, NoneStr, IN_PROGRESS, NoneEnum, None),
     TaskUpdateBody(NoneStr, NoneStr, COMPLETED, NoneEnum, None),
     TaskUpdateBody(NoneStr, NoneStr, NoneEnum, LOW, None),
     TaskUpdateBody(NoneStr, NoneStr, NoneEnum, NoneEnum, DueDate),
     TaskUpdateBody(TaggedTitle, SpacedText, TODO, HIGH, DueDate)}

EditCreateTask ==
    /\ Accepting
    /\ NextId(tasks) <= MaxEditTasks
    /\ \E g \in issued :
         \/ create_task(g.token, TaskCreateBody(<<"a">>, NoneStr, NoneEnum, None, NoneEnum))
         \/ create_task(g.token, TaskCreateBody(TaggedTitle, SpacedText, HIGH, DueDate, NoneEnum))

EditUpdateTask ==
    /\ Accepting
    /\ \E g \in issued, task_id \in 1..(MaxEditTasks + 1), task_data \in TaskEditBodies :
         update_task(g.token, task_id, task_data)

NextEdit ==
    \/ EditCreateTask
    \/ EditUpdateTask
    \/ Respond

SpecEdit == InitTasks /\ [][NextEdit]_vars

\* the stored task with this id before the step
Before(task_id) == CHOOSE t \in tasks : t.id = task_id

\* C12: a successful update leaves every field of the task that the request
\* does not supply (title, description, status, priority, due_date) at its
\* stored value, and never changes the id or the owner_id of the task.
C12_PartialUpdate ==
    [][(req'.op = "update_task" /\ resp'.code = 200) =>
         LET old == Before(req'.id)
             new == After(old)
         IN /\ \E t \in tasks : t.id = req'.id
            /\ \E t \in tasks' : t.id = req'.id
            /\ new.id = old.id
            /\ new.owner_id = old.owner_id
            /\ req'.data.title = NoneStr => new.title = old.title
            /\ req'.data.description = NoneStr => new.description = old.description
            /\ req'.data.status = NoneEnum => new.status = old.status
            /\ req'.data.priority = NoneEnum => new.priority = old.priority
            /\ req'.data.due_date = None => new.due_date = old.due_date]_vars

C12_Witness ==
    /\ req.op = "update_task"
    /\ resp.code = 200
    /\ req.data.title = NewTitle
    /\ resp.body[1].title = NewTitle
    /\ resp.body[1].status = COMPLETED
    /\ resp.body[1].priority = LOW
    /\ resp.body[1].due_date = DueDate
    /\ resp.body[1].description = sanitize_string(SpacedText)
    /\ resp.body[1] \in tasks

\* the tasks a list request of this caller must select
Selected(caller, query) ==
    {t \in tasks : /\ t.owner_id = caller.id
                   /\ query.status # NoneEnum => t.status = query.status
                   /\ query.priority # NoneEnum => t.priority = query.priority}

\* C13: a list answers only tasks of the caller that have the status and the
\* priority asked for, when one is asked for; when the page cuts nothing off
\* (skip 0, limit not below their number) it answers every such task.
C13_ListSelectsOwnedAndFiltered ==
    (req.op = "get_tasks" /\ resp.code = 200) =>
      LET rows == {resp.body[i] : i \in 1..Len(resp.body)}
          selected == Selected(Bearer(req.token), req.data)
      IN /\ rows \subseteq selected
         /\ (req.data.skip = 0 /\ req.data.limit >= Cardinality(selected))
              => rows = selected

C13_Witness ==
    /\ req.op = "get_tasks"
    /\ resp.code = 200
    /\ req.data.status = IN_PROGRESS
    /\ req.data.skip = 0
    /\ Len(resp.body) = 1
    /\ \E t \in tasks : t.owner_id # Bearer(req.token).id /\ t.status = IN_PROGRESS

(***************************************************************************)
(* Paging: two users create and delete tasks and list them page by page     *)
(***************************************************************************)
PageQueries ==
    {[status |-> NoneEnum, priority |-> NoneEnum, skip |-> k, limit |-> m] :
       k \in 0..(MaxPageTasks + 1), m \in {1, 2, 100}}
    \cup {[status |-> NoneEnum, priority |-> NoneEnum, skip |-> k, limit |-> m] :
            k \in {-1}, m \in {1}}
    \cup {[status |-> NoneEnum, priority |-> NoneEnum, skip |-> k, limit |-> m] :
            k \in {0}, m \in {0, 101}}

PageCreateTask ==
    /\ Accepting
    /\ NextId(tasks) <= MaxPageTasks
    /\ \E g \in issued :
         create_task(g.token, TaskCreateBody(<<"a">>, NoneStr, NoneEnum, None, NoneEnum))

PageDeleteTask ==
    /\ Accepting
    /\ \E g \in issued, task_id \in 1..MaxPageTasks : delete_task(g.token, task_id)

PageGetTasks ==
    /\ Accepting
    /\ \E g \in issued, query \in PageQueries : get_tasks(g.token, query)

NextPages ==
    \/ PageCreateTask
    \/ PageDeleteTask
    \/ PageGetTasks
    \/ Respond

SpecPages == InitTasks /\ [][NextPages]_vars

Min(a, b) == IF a < b THEN a ELSE b
Max(a, b) == IF a > b THEN a ELSE b

\* C14: for a caller who owns N tasks, an unfiltered list with skip k >= 0 and
\* limit m in 1..100 answers exactly max(0, min(m, N - k)) tasks, all of them
\* different.
C14_PageSize ==
    (/\ req.op = "get_tasks"
     /\ req.data.status = NoneEnum /\ req.data.priority = NoneEnum
     /\ req.data.skip >= 0 /\ req.data.limit >= 1 /\ req.data.limit <= 100) =>
      LET N == Cardinality({t \in tasks : t.owner_id = Bearer(req.token).id})
      IN /\ resp.code = 200
         /\ Len(resp.body) = Max(0, Min(req.data.limit, N - req.data.skip))
         /\ \A i, j \in 1..Len(resp.body) : i # j => resp.body[i] # resp.body[j]

C14_Witness ==
    /\ req.op = "get_tasks"
    /\ resp.code = 200
    /\ req.data.skip = 1
    /\ req.data.limit = 1
    /\ Cardinality({t \in tasks : t.owner_id = Bearer(req.token).id}) = 3
    /\ Len(resp.body) = 1

(***************************************************************************)
(* Deleting: two users create, read, update, list and delete tasks, and     *)
(* the deletions are recorded                                               *)
(***************************************************************************)
InitDelete ==
    /\ users = {AnnUser, BobUser}
    /\ tasks = {}
    /\ now = 0
    /\ issued = IssuedAtStart
    /\ ever_completed = {}
    /\ deleted = [kept |-> TRUE, rows |-> {}]
    /\ sessions = <<>>
    /\ req = Idle
    /\ resp = NoResponse

DelCreateTask ==
    /\ Accepting
    /\ NextId(tasks) <= MaxDeleteTasks
    /\ \E g \in issued :
         create_task(g.token, TaskCreateBody(<<"a">>, NoneStr, NoneEnum, None, NoneEnum))

DelGetTasks ==
    /\ Accepting
    /\ \E g \in issued :
         get_tasks(g.token, [status |-> NoneEnum, priority |-> NoneEnum,
                             skip |-> 0, limit |-> 10])

DelGetTask ==
    /\ Accepting
    /\ \E g \in issued, task_id \in 1..MaxDeleteTasks : get_task(g.token, task_id)

DelUpdateTask ==
    /\ Accepting
    /\ \E g \in issued, task_id \in 1..MaxDeleteTasks :
         update_task(g.token, task_id,
                     TaskUpdateBody(NewTitle, NoneStr, NoneEnum, NoneEnum, None))

DelDeleteTask ==
    /\ Accepting
    /\ \E g \in issued, task_id \in 1..MaxDeleteTasks : delete_task(g.token, task_id)

NextDelete ==
    \/ DelCreateTask
    \/ DelGetTasks
    \/ DelGetTask
    \/ DelUpdateTask
    \/ DelDeleteTask
    \/ Respond

SpecDelete == InitDelete /\ [][NextDelete]_vars

\* C15: once its owner has deleted task id t, every later get, update and
\* delete of t by that owner answers 404 "Task not found", and no later list
\* holds a task with id t, whatever was requested in between.
C15_DeletedStaysDeleted ==
    [][/\ (/\ req'.op \in {"get_task", "update_task", "delete_task"}
           /\ [id |-> req'.id, owner_id |-> Bearer(req'.token).id] \in deleted.rows)
          => resp' = NotFound
       /\ req'.op = "get_tasks"
          => \A i \in 1..Len(resp'.body) :
               [id |-> resp'.body[i].id, owner_id |-> resp'.body[i].owner_id]
                 \notin deleted.rows]_vars

C18_TaskIdentity ==
    [][/\ \A t1, t2 \in tasks' : t1.id = t2.id => t1 = t2
       /\ \A t \in tasks' : \E u \in users' : u.id = t.owner_id
       /\ \A t \in tasks : \A x \in tasks' : x.id = t.id => x.owner_id = t.owner_id
       /\ (req'.op = "create_task" /\ resp'.code = 200)
            => /\ resp'.body[1].owner_id = Bearer(req'.token).id
               /\ \A t \in tasks : t.id # resp'.body[1].id]_vars

C18_Witness ==
    /\ req.op = "update_task"
    /\ resp.code = 200
    /\ Cardinality(tasks) = MaxTasks
    /\ \E t1, t2 \in tasks : t1.owner_id # t2.owner_id
    /\ resp.body[1].owner_id = Bearer(req.token).id

(***************************************************************************)
(* Concurrent registration: two workers, each with its own session, handle  *)
(* one register request each; the two lookups and the insert of a request   *)
(* are separate steps                                                       *)
(***************************************************************************)
Workers == {1, 2}

\* the answer to a request whose handler raised an exception no handler
\* catches (here the IntegrityError of the unique indexes on users)
InternalServerError == HTTPException(500, "Internal Server Error")

RaceBodies ==
    {[username |-> username, email |-> email, password |-> GoodPw,
      full_name |-> NoneStr, is_admin |-> "absent"] :
       username \in {Ann, Bob}, email \in {AnnMail, BobMail}}

Waiting == [pc |-> "waiting", body |-> <<>>, resp |-> NoResponse]

InitRace ==
    /\ users \in {{}, {RootUser}}
    /\ tasks = {}
    /\ now = 0
    /\ issued = {}
    /\ ever_completed = {}
    /\ deleted = NoHistory
    /\ sessions = [w \in Workers |-> Waiting]
    /\ req = Idle
    /\ resp = NoResponse

\* the request arrives and passes validation
RaceReceive ==
    \E w \in Workers, body \in RaceBodies :
      /\ sessions[w].pc = "waiting"
      /\ validate_registration_data(body.username, EmailStr(body.email),
                                    body.password).code = 200
      /\ sessions' = [sessions EXCEPT ![w] = [pc |-> "username", body |-> body,
                                              resp |-> NoResponse]]
      /\ UNCHANGED <<users, tasks, now, issued, ever_completed, deleted, req, resp>>

\* db.query(User).filter(User.username == user_data.username).first()
RaceCheckUsername ==
    \E w \in Workers :
      /\ sessions[w].pc = "username"
      /\ sessions' = [sessions EXCEPT ![w] =
           IF by_username(@.body.username) # {}
           THEN [@ EXCEPT !.pc = "done",
                          !.resp = HTTPException(400, "Username already registered")]
           ELSE [@ EXCEPT !.pc = "email"]]
      /\ UNCHANGED <<users, tasks, now, issued, ever_completed, deleted, req, resp>>

\* db.query(User).filter(User.email == user_data.email).first()
RaceCheckEmail ==
    \E w \in Workers :
      /\ sessions[w].pc = "email"
      /\ sessions' = [sessions EXCEPT ![w] =
           IF by_email(@.body.email) # {}
           THEN [@ EXCEPT !.pc = "done",
                          !.resp = HTTPException(400, "Email already registered")]
           ELSE [@ EXCEPT !.pc = "insert"]]
      /\ UNCHANGED <<users, tasks, now, issued, ever_completed, deleted, req, resp>>

\* db.add(new_user); db.commit(): the unique indexes on username and email
\* reject the row when either is stored by now, and nothing catches that
RaceInsert ==
    \E w \in Workers, salt \in Salts :
      LET body == sessions[w].body
          new_user == User(NextId(users), body.username, body.email,
                           get_password_hash(body.password, salt), body.full_name)
      IN /\ sessions[w].pc = "insert"
         /\ IF by_username(body.username) # {} \/ by_email(body.email) # {}
            THEN /\ users' = users
                 /\ sessions' = [sessions EXCEPT ![w] =
                                   [@ EXCEPT !.pc = "done", !.resp = InternalServerError]]
            ELSE /\ users' = users \cup {new_user}
                 /\ sessions' = [sessions EXCEPT ![w] =
                                   [@ EXCEPT !.pc = "done",
                                             !.resp = OK(200, <<UserResponse(new_user)>>)]]
         /\ UNCHANGED <<tasks, now, issued, ever_completed, deleted, req, resp>>

NextRace ==
    \/ RaceReceive
    \/ RaceCheckUsername
    \/ RaceCheckEmail
    \/ RaceInsert

SpecRace == InitRace /\ [][NextRace]_vars

\* C19: when two concurrent register requests with the same username, or the
\* same email, have both been answered, one of them was answered 200 and the
\* other 400 with a Conflict detail, whatever the interleaving of their steps.
C19_OneRegisteredOtherConflict ==
    (/\ \A w \in Workers : sessions[w].pc = "done"
     /\ \/ sessions[1].body.username = sessions[2].body.username
        \/ sessions[1].body.email = sessions[2].body.email) =>
      \E w \in Workers, v \in Workers :
        /\ w # v
        /\ sessions[w].resp.code = 200
        /\ sessions[v].resp.code = 400
        /\ sessions[v].resp.detail \in ConflictDetails

(***************************************************************************)
(* Concurrent updates: two workers, each with its own session, handle one   *)
(* update of the same task by its owner each; reading the row, assigning    *)
(* the fields and committing are separate steps                             *)
(***************************************************************************)
\* the assignments of update_task to the row object of its session
assign_fields(task, task_data) ==
    LET task1 == IF task_data.title # NoneStr
                 THEN [task EXCEPT !.title = sanitize_string(task_data.title)]
                 ELSE task
        task2 == IF task_data.description # NoneStr
                 THEN [task1 EXCEPT !.description = sanitize_string(task_data.description)]
                 ELSE task1
        task3 == IF task_data.status # NoneEnum
                 THEN set_status(task2, task_data.status)
                 ELSE task2
        task4 == IF task_data.priority # NoneEnum
                 THEN [task3 EXCEPT !.priority = task_data.priority]
                 ELSE task3
    IN IF task_data.due_date # None
       THEN [task4 EXCEPT !.due_date = task_data.due_date]
       ELSE task4

\* db.commit() of a session whose row object was loaded as `loaded` and is
\* now `local`: the UPDATE sets the columns whose value differs from the
\* loaded one, and only those, in the row as it is stored by now
flush(stored, loaded, local) ==
    [stored EXCEPT
       !.title = IF local.title # loaded.title THEN local.title ELSE @,
       !.description = IF local.description # loaded.description
                       THEN local.description ELSE @,
       !.status = IF local.status # loaded.status THEN local.status ELSE @,
       !.priority = IF local.priority # loaded.priority THEN local.priority ELSE @,
       !.due_date = IF local.due_date # loaded.due_date THEN local.due_date ELSE @,
       !.completed_at = IF local.completed_at # loaded.completed_at
                        THEN local.completed_at ELSE @]

WriteBodies ==
    {TaskUpdateBody(NewTitle, NoneStr, NoneEnum, NoneEnum, None),
     TaskUpdateBody(NoneStr, NoneStr, TODO, NoneEnum, None),
     TaskUpdateBody(NoneStr, NoneStr, COMPLETED, NoneEnum, None),
     TaskUpdateBody(NoneStr, NoneStr, NoneEnum, LOW, None),
     TaskUpdateBody(TaggedTitle, SpacedText, IN_PROGRESS, HIGH, DueDate)}

StartTask == Task(1, <<"a">>, NoneStr, MEDIUM, None, 1)

Unread == [pc |-> "waiting", body |-> <<>>, loaded |-> <<>>, local |-> <<>>,
           resp |-> NoResponse]

InitWrites ==
    /\ users = {AnnUser, BobUser}
    /\ tasks \in {{StartTask}, {[StartTask EXCEPT !.status = IN_PROGRESS]}}
    /\ now = 0
    /\ issued = IssuedAtStart
    /\ ever_completed = {}
    /\ deleted = NoHistory
    /\ sessions = [of |-> [w \in Workers |-> Unread], commits |-> <<>>,
                   start |-> First(tasks)]
    /\ req = Idle
    /\ resp = NoResponse

WriteReceive ==
    \E w \in Workers, body \in WriteBodies :
      /\ sessions.of[w].pc = "waiting"
      /\ sessions' = [sessions EXCEPT !.of[w] = [@ EXCEPT !.pc = "read", !.body = body]]
      /\ UNCHANGED <<users, tasks, now, issued, ever_completed, deleted, req, resp>>

\* task = db.query(Task).filter(...).first()
WriteRead ==
    \E w \in Workers :
      /\ sessions.of[w].pc = "read"
      /\ sessions' = [sessions EXCEPT !.of[w] =
                        [@ EXCEPT !.pc = "modify",
                                  !.loaded = First(owned_task(1, AnnUser)),
                                  !.local = First(owned_task(1, AnnUser))]]
      /\ UNCHANGED <<users, tasks, now, issued, ever_completed, deleted, req, resp>>

\* the "if task_data.<field> is not None" assignments
WriteModify ==
    \E w \in Workers :
      /\ sessions.of[w].pc = "modify"
      /\ sessions' = [sessions EXCEPT !.of[w] =
                        [@ EXCEPT !.pc = "commit",
                                  !.local = assign_fields(sessions.of[w].local,
                                                         sessions.of[w].body)]]
      /\ UNCHANGED <<users, tasks, now, issued, ever_completed, deleted, req, resp>>

\* db.commit(); db.refresh(task); return task
WriteCommit ==
    \E w \in Workers :
      LET stored == First(tasks)
          written == flush(stored, sessions.of[w].loaded, sessions.of[w].local)
      IN /\ sessions.of[w].pc = "commit"
         /\ tasks' = {written}
         /\ ever_completed' = Track({written})
         /\ sessions' = [sessions EXCEPT
                           !.of[w] = [@ EXCEPT !.pc = "done",
                                               !.resp = OK(200, <<written>>)],
                           !.commits = Append(@, w)]
         /\ UNCHANGED <<users, now, issued, deleted, req, resp>>

NextWrites ==
    \/ WriteReceive
    \/ WriteRead
    \/ WriteModify
    \/ WriteCommit

SpecWrites == InitWrites /\ [][NextWrites]_vars

\* C20: when two concurrent updates of one task have both committed, the
\* stored task is the task that results from running the update that
\* committed first and then the update that committed second, one after the
\* other, whatever the interleaving of their read, modify and commit steps.
C20_LastWriteWins ==
    (\A w \in Workers : sessions.of[w].pc = "done") =>
      LET first == sessions.of[sessions.commits[1]].body
          second == sessions.of[sessions.commits[2]].body
      IN tasks = {assign_fields(assign_fields(sessions.start, first), second)}

\* C21: while a user is inactive, every protected request that presents a
\* valid, unexpired token of that user, issued before the deactivation or
\* after it, is answered 400 "Inactive user" and changes no user and no task;
\* a login of that user with the right password still answers 200 with a
\* token.
C21_DeactivationCoversIssuedTokens ==
    [][/\ (/\ req'.op \in ActiveOps \cup AdminOps
           /\ Authentic(req'.token)
           /\ ~Bearer(req'.token).is_active)
          => /\ resp' = HTTPException(400, "Inactive user")
             /\ users' = users
             /\ tasks' = tasks
       /\ (/\ req'.op = "login"
           /\ \E u \in users : /\ u.username = req'.data.username
                               /\ PlainOf(u) = req'.data.password
                               /\ ~u.is_active)
          => /\ resp'.code = 200
             /\ resp'.body[1].token_type = "bearer"
             /\ resp'.body[1].access_token.sub
                  = str((CHOOSE u \in users : u.username = req'.data.username).id)]_vars

C21_Witness ==
    /\ req.op = "update_task"
    /\ req.token \in {g.token : g \in issued}
    /\ Authentic(req.token)
    /\ ~Bearer(req.token).is_active
    /\ \E t \in tasks : t.id = req.id /\ t.owner_id = Bearer(req.token).id
                        /\ t.status # COMPLETED
    /\ resp = HTTPException(400, "Inactive user")

(***************************************************************************)
(* Administrators: every operation of the API on a store that holds no      *)
(* administrator, or the operator's one                                     *)
(***************************************************************************)
\* a client may send an is_admin field; UserCreate has no such field
AdminRegister ==
    /\ Accepting
    /\ \E username \in {Ann, Bob}, is_admin \in {"absent", "true"}, salt \in Salts :
         register_user([username |-> username,
                        email |-> IF username = Ann THEN AnnMail ELSE BobMail,
                        password |-> GoodPw, full_name |-> NoneStr,
                        is_admin |-> is_admin], salt)

NextAdmin ==
    \/ AdminRegister
    \/ Login
    \/ GateCreateTask
    \/ GateGetTasks
    \/ GateGetTask
    \/ GateUpdateTask
    \/ GateDeleteTask
    \/ GetProfile
    \/ GateUpdateProfile
    \/ GetAllUsers
    \/ GateDeactivateUser
    \/ GateActivateUser
    \/ Respond

SpecAdmin == InitUsers /\ [][NextAdmin]_vars

\* C22: no operation changes the is_admin flag of a user of the store, and
\* a user an operation adds to the store is not an administrator; so while
\* the store holds no administrator, every request for an admin-gated
\* operation is refused (401 without a valid token, 403 "Not enough
\* privileges" with one) and changes no user and no task.
C22_AdminFlagNeverChanges ==
    [][/\ \A u \in users : \A v \in users' : v.id = u.id => v.is_admin = u.is_admin
       /\ \A v \in users' : (\A u \in users : u.id # v.id) => ~v.is_admin
       /\ (/\ req'.op \in AdminOps
           /\ \A u \in users : ~u.is_admin)
          => /\ IF Authentic(req'.token)
                THEN resp' = HTTPException(403, "Not enough privileges")
                ELSE resp'.code = 401 /\ resp'.body = <<>>
             /\ users' = users
             /\ tasks' = tasks]_vars

\* a registered user, who asked to be an administrator when registering,
\* presents their token to deactivate_user on a store with no administrator
C22_Witness ==
    /\ req.op = "deactivate_user"
    /\ \A u \in users : ~u.is_admin
    /\ Cardinality(users) = 2
    /\ Authentic(req.token)
    /\ Bearer(req.token).is_active
    /\ Bearer(req.token).id # req.id
    /\ \E u \in users : u.id = req.id /\ u.is_active
    /\ resp = HTTPException(403, "Not enough privileges")

(***************************************************************************)
(* Concurrent activate and deactivate requests: the dependency              *)
(* get_current_admin_user has answered before the handler body runs, and    *)
(* the requests of two workers interleave between the two                   *)
(***************************************************************************)
\* the body of deactivate_user, once the gate has returned current_user
deactivate_user_body(current_user, user_id) ==
    LET found == {u \in users : u.id = user_id}
        user == [First(found) EXCEPT !.is_active = FALSE]
    IN IF user_id = current_user.id
       THEN [resp |-> HTTPException(400, "Cannot deactivate yourself"), users |-> users]
       ELSE IF found = {}
       THEN [resp |-> HTTPException(404, "User not found"), users |-> users]
       ELSE [resp |-> OK(200, <<UserResponse(user)>>),
             users |-> (users \ found) \cup {user}]

\* the body of activate_user
activate_user_body(current_user, user_id) ==
    LET found == {u \in users : u.id = user_id}
        user == [First(found) EXCEPT !.is_active = TRUE]
    IN IF found = {}
       THEN [resp |-> HTTPException(404, "User not found"), users |-> users]
       ELSE [resp |-> OK(200, <<UserResponse(user)>>),
             users |-> (users \ found) \cup {user}]

\* the operator has made two administrators; a third user is not one
SecondAdmin == [BobUser EXCEPT !.is_admin = TRUE]
ThirdUser == [AnnUser EXCEPT !.id = 3]

\* all three have logged in
SwitchTokens ==
    {[key |-> SECRET_KEY, sub |-> str(id), exp |-> ACCESS_TOKEN_EXPIRE_MINUTES] :
       id \in 1..3}

NotSent == [pc |-> "waiting", op |-> "idle", token |-> NoToken, id |-> None,
            current_user |-> <<>>, resp |-> NoResponse]

InitSwitch ==
    /\ users \in {{RootUser, SecondAdmin, ThirdUser},
                  {RootUser, [SecondAdmin EXCEPT !.is_active = FALSE], ThirdUser}}
    /\ tasks = {}
    /\ now = 0
    /\ issued = {[token |-> t, for |-> (CHOOSE u \in {RootUser, SecondAdmin, ThirdUser} :
                                           str(u.id) = t.sub).username] :
                   t \in SwitchTokens}
    /\ ever_completed = {}
    /\ deleted = NoHistory
    /\ sessions = [w \in Workers |-> NotSent]
    /\ req = Idle
    /\ resp = NoResponse

SwitchReceive ==
    \E w \in Workers, op \in {"deactivate_user", "activate_user"},
       token \in SwitchTokens, user_id \in 1..3 :
      /\ sessions[w].pc = "waiting"
      /\ sessions' = [sessions EXCEPT ![w] = [@ EXCEPT !.pc = "gate", !.op = op,
                                                      !.token = token, !.id = user_id]]
      /\ UNCHANGED <<users, tasks, now, issued, ever_completed, deleted, req, resp>>

\* Depends(get_current_admin_user): the user row is loaded and its
\* is_active and is_admin are tested
SwitchGate ==
    \E w \in Workers :
      LET gate == get_current_admin_user(sessions[w].token) IN
      /\ sessions[w].pc = "gate"
      /\ sessions' = [sessions EXCEPT ![w] =
                        IF gate.err # <<>>
                        THEN [@ EXCEPT !.pc = "done", !.resp = gate.err[1]]
                        ELSE [@ EXCEPT !.pc = "body", !.current_user = gate.user]]
      /\ UNCHANGED <<users, tasks, now, issued, ever_completed, deleted, req, resp>>

\* the handler body: the self test, the query of the user, the assignment
\* to is_active and db.commit()
SwitchBody ==
    \E w \in Workers :
      LET done == IF sessions[w].op = "deactivate_user"
                  THEN deactivate_user_body(sessions[w].current_user[1], sessions[w].id)
                  ELSE activate_user_body(sessions[w].current_user[1], sessions[w].id)
      IN /\ sessions[w].pc = "body"
         /\ users' = done.users
         /\ sessions' = [sessions EXCEPT ![w] = [@ EXCEPT !.pc = "done",
                                                         !.resp = done.resp]]
         /\ UNCHANGED <<tasks, now, issued, ever_completed, deleted, req, resp>>

NextSwitch ==
    \/ SwitchReceive
    \/ SwitchGate
    \/ SwitchBody

SpecSwitch == InitSwitch /\ [][NextSwitch]_vars

\* C23: an active administrator exists after any activate and deactivate
\* requests on a store that held one, concurrent requests whose admin check
\* and write to is_active are separate steps included.
C23_ActiveAdminRemains ==
    \E u \in users : u.is_admin /\ u.is_active

====
